---- MODULE Spec2Model ----
(***************************************************************************)
(* Trivia API (backend/flaskr/__init__.py): the question store, the        *)
(* request handlers registered by create_app, and the responses they       *)
(* produce.  Every handler is one atomic action of Spec; SpecConc splits   *)
(* delete_question into its query and its delete+commit; SpecQuiz is the   *)
(* quiz loop of one caller over a fixed store.                             *)
(***************************************************************************)
EXTENDS Integers, Sequences, FiniteSets, TLC

VARIABLES
    questions,   \* the questions table: a set of rows
    nextId,      \* the next value of the questions.id sequence
    writes,      \* number of requests so far that changed the table
    resp,        \* the last request handled and the response it got
    clients,     \* SpecConc: the two in-flight DELETE requests
    quiz         \* SpecQuiz: the caller's quiz session

vars == <<questions, nextId, writes, resp, clients, quiz>>

QUESTIONS_PER_PAGE == 10

\* ---- bounds of the model ------------------------------------------------
MaxSeed     == 11   \* the table starts with 0, 1, MaxSeed-1 or MaxSeed rows
MaxWrites   == 2    \* table-changing requests per behaviour
MaxPage     == 3    \* ?page= ranges over 0..MaxPage
MaxQuizSeed == 4    \* rows of the fixed table of a quiz session
MaxConcSeed == 3    \* rows of the table the two concurrent deletes start from

Min(a, b) == IF a < b THEN a ELSE b

\* ---- JSON values of a request body --------------------------------------
\* body.get(key, None) yields None for a missing key and for a JSON null
JNull   == [t |-> "null"]
JStr(s) == [t |-> "str", v |-> s]
JInt(i) == [t |-> "int", v |-> i]

\* Python truth value of a body field: None, "" and 0 are false
Truthy(x) ==
    IF x.t = "null" THEN FALSE
    ELSE IF x.t = "str" THEN x.v # ""
    ELSE x.v # 0

all(xs) == \A k \in 1..Len(xs) : Truthy(xs[k])

\* ---- the tables ----------------------------------------------------------
categories == {[id |-> 1, type |-> "Science"], [id |-> 2, type |-> "Art"]}

\* rows 1..n as seeded before the app serves requests
Seed(n) ==
    {[id |-> i, question |-> "q", answer |-> "a",
      category |-> IF i = 1 THEN 2 ELSE 1, difficulty |-> 1] : i \in 1..n}

\* Question(question=..., answer=..., category=..., difficulty=...)
Question(question, answer, category, difficulty) ==
    [question |-> question, answer |-> answer,
     category |-> category, difficulty |-> difficulty]

\* Question.insert(): the storage assigns the id from its sequence
Question_insert(store, seq, q) ==
    LET row == [id |-> seq, question |-> q.question, answer |-> q.answer,
                category |-> q.category, difficulty |-> q.difficulty]
    IN  [id |-> seq, store |-> store \cup {row}, nextId |-> seq + 1]

\* Question.delete(): removes the row; no row of that id is a no-op
Question_delete(store, row) == {r \in store : r.id # row.id}

\* Question.format()
format(q) ==
    [id |-> q.id, question |-> q.question, answer |-> q.answer,
     category |-> q.category, difficulty |-> q.difficulty]

\* Query.filter(Question.id == id).one_or_none(): the empty set is None
one_or_none_by_id(table, id) == {r \in table : r.id = id}

\* Query.filter_by(category=category_id)
filter_by_category(store, category_id) == {r \in store : r.category = category_id}

\* Query.order_by(Question.id)
RECURSIVE order_by_id(_)
order_by_id(S) ==
    IF S = {} THEN <<>>
    ELSE LET m == CHOOSE r \in S : \A o \in S : r.id <= o.id
         IN  <<m>> \o order_by_id(S \ {m})

\* Query.paginate(page=, per_page=, error_out=False)
paginate(rows, page, per_page) ==
    LET p     == IF page < 1 THEN 1 ELSE page
        total == Len(rows)
    IN  [items |-> SubSeq(rows, (p - 1) * per_page + 1, Min(p * per_page, total)),
         total |-> total,
         page  |-> p,
         pages |-> (total + per_page - 1) \div per_page]

\* ---- outcomes of a handler ------------------------------------------------
\* abort(code): raises an HTTPException
Abort(code, store, seq) ==
    [raised |-> TRUE, status |-> code, body |-> [success |-> FALSE],
     store |-> store, nextId |-> seq]

\* return jsonify(body)
Return(body, store, seq) ==
    [raised |-> FALSE, status |-> 200, body |-> body, store |-> store, nextId |-> seq]

\* try: ... except: abort(422) -- a bare except catches every exception
\* raised in the block, the HTTPException of abort() included
Except422(o) == IF o.raised THEN Abort(422, o.store, o.nextId) ELSE o

\* ---- the handlers ---------------------------------------------------------
\* variant: total_questions counts the page, not the table
get_questions_PageTotal(store, seq, page) ==
    LET pagination == paginate(order_by_id(store), page, QUESTIONS_PER_PAGE)
        paginated_questions ==
            [k \in 1..Len(pagination.items) |-> format(pagination.items[k])]
    IN  IF paginated_questions = <<>>
        THEN Abort(404, store, seq)
        ELSE Return([success |-> TRUE,
                     questions |-> paginated_questions,
                     total_questions |-> Len(paginated_questions),
                     current_page |-> pagination.page,
                     total_pages |-> pagination.pages,
                     categories |-> categories], store, seq)

\* variant: an empty page is returned, not aborted
get_questions_EmptyOk(store, seq, page) ==
    LET pagination == paginate(order_by_id(store), page, QUESTIONS_PER_PAGE)
        paginated_questions ==
            [k \in 1..Len(pagination.items) |-> format(pagination.items[k])]
    IN  Return([success |-> TRUE,
                questions |-> paginated_questions,
                total_questions |-> pagination.total,
                current_page |-> pagination.page,
                total_pages |-> pagination.pages,
                categories |-> categories], store, seq)

get_questions(store, seq, page) ==
    LET pagination == paginate(order_by_id(store), page, QUESTIONS_PER_PAGE)
        paginated_questions ==
            [k \in 1..Len(pagination.items) |-> format(pagination.items[k])]
    IN  IF paginated_questions = <<>>
        THEN Abort(404, store, seq)
        ELSE Return([success |-> TRUE,
                     questions |-> paginated_questions,
                     total_questions |-> pagination.total,
                     current_page |-> pagination.page,
                     total_pages |-> pagination.pages,
                     categories |-> categories], store, seq)

\* variant: the row is looked up and reported deleted, but never deleted
delete_question_NoDelete(store, seq, question_id) ==
    LET question == one_or_none_by_id(store, question_id)
    IN  Except422(
            IF question = {}
            THEN Abort(404, store, seq)
            ELSE Return([success |-> TRUE, deleted |-> question_id], store, seq))

delete_question(store, seq, question_id) ==
    LET question == one_or_none_by_id(store, question_id)
    IN  Except422(
            IF question = {}
            THEN Abort(404, store, seq)
            ELSE Return([success |-> TRUE, deleted |-> question_id],
                        Question_delete(store, CHOOSE r \in question : TRUE), seq))

\* the value stored for a body field (None is stored as an empty value)
Stored(x) == IF x.t = "null" THEN "" ELSE x.v

\* variant: the answer is left out of the validation
create_question_NoAnswerCheck(store, seq, body) ==
    IF ~all(<<body.question, body.category, body.difficulty>>)
    THEN Abort(422, store, seq)
    ELSE Except422(
            LET ins == Question_insert(store, seq,
                           Question(body.question.v, Stored(body.answer),
                                    body.category.v, body.difficulty.v))
            IN  Return([success |-> TRUE, created |-> ins.id],
                       ins.store, ins.nextId))

\* variant: question and answer are passed to Question() in each other's place
create_question_SwapFields(store, seq, body) ==
    IF ~all(<<body.question, body.answer, body.category, body.difficulty>>)
    THEN Abort(422, store, seq)
    ELSE Except422(
            LET ins == Question_insert(store, seq,
                           Question(body.answer.v, body.question.v,
                                    body.category.v, body.difficulty.v))
            IN  Return([success |-> TRUE, created |-> ins.id],
                       ins.store, ins.nextId))

create_question(store, seq, body) ==
    LET new_question   == body.question
        new_answer     == body.answer
        new_category   == body.category
        new_difficulty == body.difficulty
    IN  IF ~all(<<new_question, new_answer, new_category, new_difficulty>>)
        THEN Abort(422, store, seq)
        ELSE Except422(
                LET ins == Question_insert(store, seq,
                               Question(new_question.v, new_answer.v,
                                        new_category.v, new_difficulty.v))
                IN  Return([success |-> TRUE, created |-> ins.id],
                           ins.store, ins.nextId))

get_questions_by_category(store, seq, body, page) ==
    LET category_id == body.category_id
    IN  IF ~Truthy(category_id)
        THEN Abort(400, store, seq)
        ELSE Except422(
                LET category == {c \in categories : c.id = category_id.v}
                IN  IF category = {}
                    THEN Abort(404, store, seq)
                    ELSE
                    LET selection  == order_by_id(filter_by_category(store, category_id.v))
                        total_questions == Len(selection)
                        pagination == paginate(selection, page, QUESTIONS_PER_PAGE)
                        paginated_questions ==
                            [k \in 1..Len(pagination.items) |->
                                format(pagination.items[k])]
                    IN  IF paginated_questions = <<>>
                        THEN Abort(404, store, seq)
                        ELSE Return([success |-> TRUE,
                                     questions |-> paginated_questions,
                                     total_questions |-> total_questions,
                                     current_category |->
                                        (CHOOSE c \in category : TRUE).type],
                                    store, seq))

\* ---- inputs ---------------------------------------------------------------
Pages         == 0..MaxPage
QuestionIds   == 1..(MaxSeed + MaxWrites + 1)
QuestionTexts == {JNull, JStr(""), JStr("q")}
AnswerTexts   == {JNull, JStr(""), JStr("a")}
CategoryVals  == {JNull, JInt(1), JInt(2)}
DifficultyVals == {JNull, JInt(0), JInt(1)}
CategoryIdVals == {JNull, JInt(0), JInt(1), JInt(2), JInt(3)}

Idle == [op |-> "none"]
NoClients == <<>>
NoQuiz == [active |-> FALSE]

\* ---- Spec: one request at a time -----------------------------------------
SeedSizes == {0, 1, MaxSeed - 1, MaxSeed}

Init ==
    \E n \in SeedSizes :
        /\ questions = Seed(n)
        /\ nextId = n + 1
        /\ writes = 0
        /\ resp = Idle
        /\ clients = NoClients
        /\ quiz = NoQuiz

\* the handler's outcome o answers request req of kind op
Handle(op, req, o) ==
    /\ writes' = IF o.store # questions THEN writes + 1 ELSE writes
    /\ writes' <= MaxWrites
    /\ questions' = o.store
    /\ nextId' = o.nextId
    /\ resp' = [op |-> op, req |-> req, status |-> o.status, body |-> o.body,
                before |-> questions, seqBefore |-> nextId]
    /\ UNCHANGED <<clients, quiz>>

\* page = request.args.get('page', 1, type=int)
GetQuestions(page) ==
    LET o == get_questions(questions, nextId, page)
    IN  /\ page \in Int
        /\ Handle("get_questions", [page |-> page], o)

\* the route's <int:question_id> converter matches non-negative integers
DeleteQuestion(id) ==
    LET o == delete_question(questions, nextId, id)
    IN  /\ id \in Nat
        /\ Handle("delete_question", [id |-> id], o)

\* body = request.get_json()
CreateQuestion(body) ==
    LET o == create_question(questions, nextId, body)
    IN  /\ DOMAIN body = {"question", "answer", "category", "difficulty"}
        /\ Handle("create_question", body, o)

GetQuestionsByCategory(body, page) ==
    LET o == get_questions_by_category(questions, nextId, body, page)
    IN  /\ DOMAIN body = {"category_id"}
        /\ page \in Int
        /\ Handle("get_questions_by_category",
                  [category_id |-> body.category_id, page |-> page], o)

Next ==
    \/ \E page \in Pages : GetQuestions(page)
    \/ \E id \in QuestionIds : DeleteQuestion(id)
    \/ \E q \in QuestionTexts, a \in AnswerTexts, c \in CategoryVals, d \in DifficultyVals :
          CreateQuestion([question |-> q, answer |-> a, category |-> c, difficulty |-> d])
    \/ \E cid \in CategoryIdVals, page \in Pages :
          GetQuestionsByCategory([category_id |-> cid], page)

Spec == Init /\ [][Next]_vars

\* ---- SpecConc: two DELETE requests served concurrently -------------------
\* Each request runs delete_question in two storage calls: the query of
\* line 66 and the delete+commit of line 71; the other request may run
\* between them.
Clients == {1, 2}
ConcIds == 1..(MaxConcSeed + 1)

Started == [pc |-> "start", id |-> 0, question |-> {}, status |-> 0, removed |-> FALSE]

InitConc ==
    \E n \in 0..MaxConcSeed :
        /\ questions = Seed(n)
        /\ nextId = n + 1
        /\ writes = 0
        /\ resp = Idle
        /\ clients = [c \in Clients |-> Started]
        /\ quiz = NoQuiz

\* question = Question.query.filter(...).one_or_none(); if None: abort(404),
\* which the bare except turns into abort(422)
DeleteLookup(c, question_id) ==
    /\ clients[c].pc = "start"
    /\ LET question == one_or_none_by_id(questions, question_id)
           o == Except422(IF question = {}
                          THEN Abort(404, questions, nextId)
                          ELSE Return([success |-> TRUE], questions, nextId))
       IN  clients' = [clients EXCEPT ![c] =
                [pc |-> IF o.raised THEN "done" ELSE "found",
                 id |-> question_id,
                 question |-> question,
                 status |-> IF o.raised THEN o.status ELSE 0,
                 removed |-> FALSE]]
    /\ UNCHANGED <<questions, nextId, writes, resp, quiz>>

\* question.delete(); return jsonify(success, deleted)
DeleteCommit(c) ==
    /\ clients[c].pc = "found"
    /\ LET row == CHOOSE r \in clients[c].question : TRUE
           after == Question_delete(questions, row)
       IN  /\ questions' = after
           /\ clients' = [clients EXCEPT ![c] =
                    [pc |-> "done", id |-> clients[c].id,
                     question |-> clients[c].question,
                     status |-> 200,
                     removed |-> after # questions]]
    /\ UNCHANGED <<nextId, writes, resp, quiz>>

NextConc ==
    \/ \E c \in Clients, id \in ConcIds : DeleteLookup(c, id)
    \/ \E c \in Clients : DeleteCommit(c)

SpecConc == InitConc /\ [][NextConc]_vars

\* ---- SpecQuiz: one caller playing a quiz over a fixed table ---------------
\* variant: the previous questions are not taken out of the pool
next_question_NoExclude(store, quiz_category, previous_questions) ==
    IF quiz_category.t = "int" /\ ~\E c \in categories : c.id = quiz_category.v
    THEN {[status |-> 400, question |-> {}]}
    ELSE LET pool == IF quiz_category.t = "int"
                     THEN filter_by_category(store, quiz_category.v)
                     ELSE store
         IN  IF pool = {}
             THEN {[status |-> 200, question |-> {}]}
             ELSE {[status |-> 200, question |-> {format(r)}] : r \in pool}

\* POST /quizzes: the eligible pool is the questions of the category (all
\* questions without one) minus the previous ones; one of them is drawn at
\* random, and an empty pool answers success with no question.  A category
\* that is given and not stored is a bad request.  The result is the set of
\* responses the random draw can produce; question is a set of at most one.
next_question(store, quiz_category, previous_questions) ==
    IF quiz_category.t = "int" /\ ~\E c \in categories : c.id = quiz_category.v
    THEN {[status |-> 400, question |-> {}]}
    ELSE LET pool == IF quiz_category.t = "int"
                     THEN filter_by_category(store, quiz_category.v)
                     ELSE store
             remaining == {r \in pool :
                             \A k \in 1..Len(previous_questions) :
                                 previous_questions[k] # r.id}
         IN  IF remaining = {}
             THEN {[status |-> 200, question |-> {}]}
             ELSE {[status |-> 200, question |-> {format(r)}] : r \in remaining}

QuizCategories == {JNull, JInt(1), JInt(2), JInt(3)}

InitQuiz ==
    \E n \in 0..MaxQuizSeed, cat \in QuizCategories :
        /\ questions = Seed(n)
        /\ nextId = n + 1
        /\ writes = 0
        /\ resp = Idle
        /\ clients = NoClients
        /\ quiz = [active |-> TRUE, category |-> cat, previous |-> <<>>,
                   calls |-> 0, status |-> 0, question |-> {}, ended |-> FALSE]

\* the caller posts its previous_questions, and adds the id it gets back;
\* it stops at the first response that carries no question
QuizCall ==
    /\ quiz.active /\ ~quiz.ended
    /\ \E o \in next_question(questions, quiz.category, quiz.previous) :
          quiz' = [quiz EXCEPT
                     !.calls = @ + 1,
                     !.status = o.status,
                     !.question = o.question,
                     !.ended = (o.question = {}),
                     !.previous = IF o.question = {} THEN @
                                  ELSE Append(@, (CHOOSE q \in o.question : TRUE).id)]
    /\ UNCHANGED <<questions, nextId, writes, resp, clients>>

NextQuiz == QuizCall

SpecQuiz == InitQuiz /\ [][NextQuiz]_vars

\* ==== properties ============================================================
Did(op) == resp.op = op

\* the rows of a table with the given id
RowsWithId(table, id) == {r \in table : r.id = id}

\* the row at 1-based position k of a table sorted by ascending id
RowAt(table, k) ==
    CHOOSE r \in table : Cardinality({o \in table : o.id < r.id}) = k - 1

\* a body field that is missing, null or empty
Blank(x) == x.t = "null" \/ (x.t = "str" /\ x.v = "")

\* ---- Spec ----
\* C1: DELETE /questions/{id} with an id that no stored question has answers
\* 404 and leaves the question store unchanged.
C1_DeleteAbsentIsNotFound ==
    (Did("delete_question") /\ RowsWithId(resp.before, resp.req.id) = {})
        => (resp.status = 404 /\ questions = resp.before)

\* C2: DELETE /questions/{id} with the id of a stored question answers 200
\* with deleted = id, and the store afterwards is the store before minus that
\* one question: the id is absent, the other rows are unchanged, the count
\* is one less.
C2_DeleteExisting ==
    (Did("delete_question") /\ RowsWithId(resp.before, resp.req.id) # {})
        => /\ resp.status = 200
           /\ resp.body.success
           /\ resp.body.deleted = resp.req.id
           /\ RowsWithId(questions, resp.req.id) = {}
           /\ questions = resp.before \ RowsWithId(resp.before, resp.req.id)
           /\ Cardinality(questions) = Cardinality(resp.before) - 1

C2_Witness ==
    /\ Did("delete_question")
    /\ RowsWithId(resp.before, resp.req.id) # {}
    /\ Cardinality(resp.before) >= 2
    /\ resp.status = 200

\* C3: POST /questions/category answers 400 when category_id is missing, 404
\* when category_id names no stored category or the requested page of the
\* category's questions is empty, and 200 otherwise (no storage failure
\* occurs here, so never 422).  A category_id of 0 is left open between 400
\* and 404.
C3_CategoryStatusCodes ==
    Did("get_questions_by_category") =>
        LET cid  == resp.req.category_id
            page == IF resp.req.page < 1 THEN 1 ELSE resp.req.page
            n    == IF cid.t = "int"
                    THEN Cardinality({r \in resp.before : r.category = cid.v})
                    ELSE 0
        IN  IF cid.t = "null" THEN resp.status = 400
            ELSE IF cid.v = 0 THEN resp.status \in {400, 404}
            ELSE IF ~\E c \in categories : c.id = cid.v THEN resp.status = 404
            ELSE IF (page - 1) * QUESTIONS_PER_PAGE >= n THEN resp.status = 404
            ELSE resp.status = 200

\* C4: GET /questions?page=N with N >= 1 and offset (N-1)*10 below the total
\* returns exactly min(10, total - offset) questions, those at positions
\* offset+1 .. offset+limit of the store sorted by ascending id, and reports
\* total_questions = total.
C4_PageContents ==
    LET total  == Cardinality(resp.before)
        offset == (resp.req.page - 1) * QUESTIONS_PER_PAGE
    IN  (Did("get_questions") /\ resp.req.page >= 1 /\ offset < total)
            => /\ resp.status = 200
               /\ Len(resp.body.questions) = Min(QUESTIONS_PER_PAGE, total - offset)
               /\ \A k \in 1..Len(resp.body.questions) :
                     /\ resp.body.questions[k] \in resp.before
                     /\ resp.body.questions[k] = RowAt(resp.before, offset + k)
               /\ resp.body.total_questions = total

\* a second page that is not full, of a table whose ids have a gap
C4_Witness ==
    /\ Did("get_questions")
    /\ resp.req.page = 2
    /\ resp.status = 200
    /\ Len(resp.body.questions) \in 1..(QUESTIONS_PER_PAGE - 1)
    /\ \E r \in resp.before : r.id > Cardinality(resp.before)

\* C5: GET /questions with a page beyond the last non-empty page answers 404,
\* for any total, the empty store (where page 1 is out of range) included.
C5_PageBeyondLastIsNotFound ==
    (/\ Did("get_questions")
     /\ resp.req.page >= 1
     /\ (resp.req.page - 1) * QUESTIONS_PER_PAGE >= Cardinality(resp.before))
        => (resp.status = 404 /\ questions = resp.before)

C5_Witness ==
    /\ Did("get_questions")
    /\ resp.req.page = 1
    /\ resp.before = {}
    /\ resp.seqBefore > 1
    /\ resp.status = 404

\* C6: POST /questions with question, answer, category or difficulty
\* missing, null or empty answers 422, and neither the store nor the id
\* sequence has been touched.
C6_BlankFieldRejected ==
    (/\ Did("create_question")
     /\ \/ Blank(resp.req.question) \/ Blank(resp.req.answer)
        \/ Blank(resp.req.category) \/ Blank(resp.req.difficulty))
        => (resp.status = 422 /\ questions = resp.before /\ nextId = resp.seqBefore)

\* only the answer is missing, as in test_422_if_question_creation_fails
C6_Witness ==
    /\ Did("create_question")
    /\ ~Blank(resp.req.question) /\ Blank(resp.req.answer)
    /\ ~Blank(resp.req.category) /\ Truthy(resp.req.difficulty)
    /\ resp.status = 422

\* C7: a successful POST /questions adds exactly one question, with the
\* request's question, answer, category and difficulty, answers its id as
\* created, and that id is the id of no question stored before; at all times
\* no two stored questions share an id.
C7_CreateAddsOneFreshRow ==
    /\ (Did("create_question") /\ resp.status = 200)
         => \E row \in questions :
               /\ row \notin resp.before
               /\ questions = resp.before \cup {row}
               /\ row.id = resp.body.created
               /\ row.question = resp.req.question.v
               /\ row.answer = resp.req.answer.v
               /\ row.category = resp.req.category.v
               /\ row.difficulty = resp.req.difficulty.v
               /\ RowsWithId(resp.before, row.id) = {}
    /\ \A r1, r2 \in questions : r1.id = r2.id => r1 = r2

\* a create that follows a delete
C7_Witness ==
    /\ Did("create_question")
    /\ resp.status = 200
    /\ writes = 2
    /\ Cardinality(questions) = Cardinality(Seed(resp.seqBefore - 1))

\* C9: POST /questions with non-empty question and answer, a category value
\* and any integer difficulty, 0 included, is accepted.
C9_AnyDifficultyAccepted ==
    (/\ Did("create_question")
     /\ Truthy(resp.req.question) /\ Truthy(resp.req.answer)
     /\ Truthy(resp.req.category)
     /\ resp.req.difficulty.t = "int")
        => (resp.status = 200 /\ Cardinality(questions) = Cardinality(resp.before) + 1)

\* ---- SpecConc ----
\* C10: of two interleaved DELETE requests for the same stored id at most one
\* answers 200.
C10_AtMostOneSuccess ==
    \A c1, c2 \in Clients :
        (/\ c1 # c2
         /\ clients[c1].pc = "done" /\ clients[c2].pc = "done"
         /\ clients[c1].id = clients[c2].id)
            => ~(clients[c1].status = 200 /\ clients[c2].status = 200)

\* ---- SpecQuiz ----
\* the ids a quiz over the category can serve
QuizPool ==
    {r.id : r \in {q \in questions :
                     quiz.category.t = "int" => q.category = quiz.category.v}}

QuizCategoryOk ==
    quiz.category.t = "int" => \E c \in categories : c.id = quiz.category.v

====
